---- MODULE Spec2Model ----
(***************************************************************************)
(* Model of the servo-calibration sketch (src/servo-calibration.ino).      *)
(*                                                                         *)
(* setup() runs three blocking stages in order: getActiveSenseRange (range *)
(* sampling until the calibration pin reads LOW), calibrateBooleanSense    *)
(* (dead-band thresholds from the observed range) and                      *)
(* synchronizeToRotation (two busy-wait loops over getAdcBoolean).  After  *)
(* that loop() runs forever, counting a revolution whenever the stored     *)
(* state is HIGH and the detected state is LOW.                            *)
(*                                                                         *)
(* The analog input, the calibration pin and the millisecond clock are the *)
(* environment: every read draws its value from a small set.               *)
(***************************************************************************)
EXTENDS Integers, Sequences, FiniteSets

VARIABLES
    pc,              \* position of the single thread of control
    threshold,       \* unsigned int threshold[2], indexed by false / true
    adcState,        \* boolean adcState
    startTime,       \* unsigned long startTime
    revolutionStart, \* unsigned long revolutionStart
    revolutions,     \* unsigned int revolutions
    newLimit,        \* local newLimit of getActiveSenseRange
    now,             \* value the next millis() builds on (wraps at ClockModulus)
    elapsed,         \* history: true milliseconds since sampling began
    rangeLine,       \* the "new range" line printed by the latest sampling pass
    reports,         \* the "Revolution" lines printed so far, oldest first
    sampled,         \* history: the samples the range in threshold[] came from
    adc,             \* local adc of the latest getAdcBoolean call
    lastState,       \* history: what the latest getAdcBoolean call returned
    observed,        \* history: threshold[] as calibrateBooleanSense found it
    calls,           \* history: number of calibrateBooleanSense calls so far
    calibPin,        \* history: what the latest digitalRead(CALIB_PIN) returned
    highSince,       \* history: a sample >= threshold[true] was read since the
                     \* first wait of synchronizeToRotation ended or a revolution
                     \* was last counted
    wrapped,         \* history: the clock has passed ClockModulus
    edgeElapsed      \* history: true milliseconds at which revolutionStart was set

vars == <<pc, threshold, adcState, startTime, revolutionStart, revolutions,
          newLimit, now, elapsed, rangeLine, reports, sampled, adc, lastState,
          observed, calls, calibPin, highSince, wrapped, edgeElapsed>>

(***************************************************************************)
(* Program constants.                                                      *)
(***************************************************************************)
MAX_ADC == 1023
MIN_ADC == 0
\* DEAD_BAND_FACTOR = 0.25, held as the exact fraction 1 / 4
DEAD_BAND_FACTOR_NUM == 1
DEAD_BAND_FACTOR_DEN == 4
FIXED_DEAD_BAND == 40
\* width of unsigned int on the AVR boards the sketch names (Leonardo)
UIntBits == 16
UIntModulus == 2 ^ UIntBits

HIGH == TRUE
LOW == FALSE

(***************************************************************************)
(* Bounds of the model.                                                    *)
(***************************************************************************)
\* width of the modelled millisecond clock (unsigned long, scaled down)
ClockBits == 12
ClockModulus == 2 ^ ClockBits
\* how far before a wraparound the clock may stand when sampling begins
WrapLead == 700
\* the clock is not advanced past this many milliseconds of run time
MaxElapsed == 2700
\* loop() stops counting after this many revolutions
MaxRevolutions == 2
\* the unit harness calls calibrateBooleanSense at most this often
MaxCalls == 2

\* values analogRead(SENSE_PIN) may return
Samples == {0, 100, 450, 460, 500, 540, 600, 900, 1023}
\* milliseconds that may pass between two consecutive reads of millis()
ClockSteps == {0, 500, 1200}
\* clock values at which range sampling may begin (the Serial wait is open ended)
BootTimes == {0, ClockModulus - WrapLead}

StateName(b) == IF b THEN "HIGH" ELSE "LOW"

(***************************************************************************)
(* Arithmetic of the sketch's types.                                       *)
(***************************************************************************)
\* unsigned int addition and subtraction wrap at 2^UIntBits
UIntAdd(a, b) == (a + b) % UIntModulus
UIntSub(a, b) == (a - b) % UIntModulus
\* unsigned long subtraction of two clock values wraps at the clock's width
ULongSub(a, b) == (a - b) % ClockModulus

\* A float that is an exact fraction is held as <<numerator, denominator>>.
\* extent * DEAD_BAND_FACTOR: the unsigned operand is converted, the product
\* of an integer below 2^24 and 0.25 is exact.
ScaleByFactor(extent) == <<extent * DEAD_BAND_FACTOR_NUM, DEAD_BAND_FACTOR_DEN>>
\* the min(a, b) macro, ((a) < (b) ? (a) : (b)), on a float and an unsigned int
FloatMin(q, n) == IF q[1] < n * q[2] THEN q ELSE <<n, 1>>
\* float to unsigned int: the fraction is dropped
FloatToUInt(q) == (q[1] \div q[2]) % UIntModulus

\* Serial.print(double, 3) of num / den: the value in thousandths, rounded
\* half up; a division by zero prints as "inf" (finite = FALSE)
PrintedSpeed(num, den) ==
    IF den = 0
    THEN [finite |-> FALSE, milli |-> 0]
    ELSE [finite |-> TRUE, milli |-> (2 * 1000 * num + den) \div (2 * den)]

(***************************************************************************)
(* getAdcBoolean: the state for a sample, given the stored state.          *)
(***************************************************************************)
\* variant: the comparisons exclude the thresholds themselves
getAdcBooleanStrict(value, state, th) ==
    IF state
    THEN IF value < th[FALSE] THEN FALSE ELSE state
    ELSE IF value > th[TRUE] THEN TRUE ELSE state

\* variant: the two thresholds are taken from the wrong ends of threshold[]
getAdcBooleanSwapped(value, state, th) ==
    IF state
    THEN IF value <= th[TRUE] THEN FALSE ELSE state
    ELSE IF value >= th[FALSE] THEN TRUE ELSE state

getAdcBoolean(value, state, th) ==
    IF state
    THEN IF value <= th[FALSE] THEN FALSE ELSE state
    ELSE IF value >= th[TRUE] THEN TRUE ELSE state

(***************************************************************************)
(* calibrateBooleanSense: the thresholds for the range held in th.         *)
(***************************************************************************)
Median(th) == UIntAdd(th[FALSE], th[TRUE]) \div 2
Extent(th) == UIntSub(th[TRUE], th[FALSE])
\* variant: the fraction of the product is rounded up instead of dropped
HalfBandRoundedUp(th) ==
    LET q == FloatMin(ScaleByFactor(Extent(th)), FIXED_DEAD_BAND)
    IN ((q[1] + q[2] - 1) \div q[2]) % UIntModulus
\* variant: the cap FIXED_DEAD_BAND is not applied
HalfBandUncapped(th) == FloatToUInt(ScaleByFactor(Extent(th)))

HalfBand(th) == FloatToUInt(FloatMin(ScaleByFactor(Extent(th)), FIXED_DEAD_BAND))
CalibratedThreshold(th) ==
    [b \in BOOLEAN |-> IF b THEN UIntAdd(Median(th), HalfBand(th))
                            ELSE UIntSub(Median(th), HalfBand(th))]

(***************************************************************************)
(* getActiveSenseRange: the range after one more sample.                   *)
(***************************************************************************)
LowerLimit(value, th) == IF value < th[FALSE] THEN value ELSE th[FALSE]
\* variant: the second test is only made when the first one failed (else if)
UpperLimitElseIf(value, th) ==
    IF value < th[FALSE] THEN th[TRUE]
    ELSE IF value > th[TRUE] THEN value ELSE th[TRUE]

UpperLimit(value, th) == IF value > th[TRUE] THEN value ELSE th[TRUE]
ObservedRange(value, th) ==
    [b \in BOOLEAN |-> IF b THEN UpperLimit(value, th) ELSE LowerLimit(value, th)]
LimitChanged(value, th) == value < th[FALSE] \/ value > th[TRUE]

(***************************************************************************)
(* loop(): the quantities computed on a HIGH to LOW edge.                  *)
(***************************************************************************)
\* variant: any change of state counts as an edge
FallingEdgeEitherWay(previous, current) == previous # current

FallingEdge(previous, current) == previous /\ ~current
\* variant: the interval is taken the other way round
RevolutionIntervalReversed(revolutionEnd, start) == ULongSub(start, revolutionEnd)

\* variant: the subtraction is made in a signed type and does not wrap
RevolutionIntervalSigned(revolutionEnd, start) == revolutionEnd - start

RevolutionInterval(revolutionEnd, start) == ULongSub(revolutionEnd, start)
TotalInterval(revolutionEnd, start) == ULongSub(revolutionEnd, start)
NextRevolutions(n) == UIntAdd(n, 1)
\* variant: the total interval is measured from the last edge as well
RevolutionReportTotalFromLastEdge(n, revolutionEnd, lastEdge, start) ==
    [n        |-> n,
     interval |-> RevolutionInterval(revolutionEnd, lastEdge),
     total    |-> TotalInterval(revolutionEnd, lastEdge),
     revSpeed |-> PrintedSpeed(1000, RevolutionInterval(revolutionEnd, lastEdge)),
     averageSpeed |-> PrintedSpeed(n * 1000, TotalInterval(revolutionEnd, lastEdge)),
     at       |-> revolutionEnd]

RevolutionReport(n, revolutionEnd, lastEdge, start) ==
    [n        |-> n,
     interval |-> RevolutionInterval(revolutionEnd, lastEdge),
     total    |-> TotalInterval(revolutionEnd, start),
     revSpeed |-> PrintedSpeed(1000, RevolutionInterval(revolutionEnd, lastEdge)),
     averageSpeed |-> PrintedSpeed(n * 1000, TotalInterval(revolutionEnd, start)),
     at       |-> revolutionEnd]

\* millis(): d milliseconds after the previous read
Millis(d) == (now + d) % ClockModulus
\* whether that read lies beyond the clock's wraparound
Wraps(d) == now + d >= ClockModulus

(***************************************************************************)
(* Initial state: the globals as the sketch declares them.                 *)
(***************************************************************************)
Init ==
    /\ pc = "setup"
    /\ threshold = [b \in BOOLEAN |-> 0]
    /\ adcState = HIGH
    /\ startTime = 0
    /\ revolutionStart = 0
    /\ revolutions = 0
    /\ newLimit = FALSE
    /\ now = 0
    /\ elapsed = 0
    /\ rangeLine = <<>>
    /\ reports = <<>>
    /\ sampled = {}
    /\ adc = 0
    /\ lastState = "none"
    /\ observed = [b \in BOOLEAN |-> 0]
    /\ calls = 0
    /\ calibPin = "unread"
    /\ highSince = FALSE
    /\ wrapped = FALSE
    /\ edgeElapsed = 0

(***************************************************************************)
(* setup() up to the sampling loop: the wait for the serial port, then the *)
(* first statements of getActiveSenseRange.                                *)
(***************************************************************************)
\* variant: the range starts at the extremes the right way round
setupRangeNotInverted ==
    /\ pc = "setup"
    /\ \E boot \in BootTimes : now' = boot
    /\ threshold' = [b \in BOOLEAN |-> IF b THEN MAX_ADC ELSE MIN_ADC]
    /\ newLimit' = FALSE
    /\ pc' = "sample"
    /\ UNCHANGED <<adcState, startTime, revolutionStart, revolutions, elapsed,
                   rangeLine, reports, sampled, adc, lastState, observed, calls,
                   calibPin, highSince, wrapped, edgeElapsed>>

setup ==
    /\ pc = "setup"
    /\ \E boot \in BootTimes : now' = boot
    /\ threshold' = [b \in BOOLEAN |-> IF b THEN MIN_ADC ELSE MAX_ADC]
    /\ newLimit' = FALSE
    /\ pc' = "sample"
    /\ UNCHANGED <<adcState, startTime, revolutionStart, revolutions, elapsed,
                   rangeLine, reports, sampled, adc, lastState, observed, calls,
                   calibPin, highSince, wrapped, edgeElapsed>>

(***************************************************************************)
(* One pass of the while loop of getActiveSenseRange with the calibration  *)
(* pin reading HIGH.                                                       *)
(***************************************************************************)
getActiveSenseRange ==
    /\ pc = "sample"
    /\ \E value \in Samples, d \in ClockSteps :
          LET changed == newLimit \/ LimitChanged(value, threshold)
              range == ObservedRange(value, threshold)
          IN /\ threshold' = range
             /\ newLimit' = changed
             /\ sampled' = sampled \cup {value}
             /\ IF changed
                THEN /\ elapsed + d <= MaxElapsed
                     /\ now' = Millis(d)
                     /\ elapsed' = elapsed + d
                     /\ wrapped' = (wrapped \/ Wraps(d))
                     /\ rangeLine' = <<[low |-> range[FALSE], high |-> range[TRUE],
                                        at |-> Millis(d)]>>
                ELSE /\ d = 0
                     /\ rangeLine' = <<>>
                     /\ UNCHANGED <<now, elapsed, wrapped>>
    /\ calibPin' = "HIGH"
    /\ UNCHANGED <<pc, adcState, startTime, revolutionStart, revolutions,
                   reports, adc, lastState, observed, calls, highSince,
                   edgeElapsed>>

(***************************************************************************)
(* The calibration pin reads LOW: getActiveSenseRange returns.             *)
(***************************************************************************)
\* variant: setup() goes on to synchronizeToRotation without calibrating
calibrationPinLowSkipsCalibration ==
    /\ pc = "sample"
    /\ pc' = "sync_low"
    /\ calibPin' = "LOW"
    /\ UNCHANGED <<threshold, adcState, startTime, revolutionStart, revolutions,
                   newLimit, now, elapsed, rangeLine, reports, sampled, adc,
                   lastState, observed, calls, highSince, wrapped, edgeElapsed>>

calibrationPinLow ==
    /\ pc = "sample"
    /\ pc' = "calibrate"
    /\ calibPin' = "LOW"
    /\ UNCHANGED <<threshold, adcState, startTime, revolutionStart, revolutions,
                   newLimit, now, elapsed, rangeLine, reports, sampled, adc,
                   lastState, observed, calls, highSince, wrapped, edgeElapsed>>

(***************************************************************************)
(* calibrateBooleanSense, as setup() calls it.                             *)
(***************************************************************************)
calibrateBooleanSense ==
    /\ pc = "calibrate"
    /\ observed' = threshold
    /\ threshold' = CalibratedThreshold(threshold)
    /\ calls' = calls + 1
    /\ sampled' = {}
    /\ pc' = "sync_low"
    /\ UNCHANGED <<adcState, startTime, revolutionStart, revolutions, newLimit,
                   now, elapsed, rangeLine, reports, adc, lastState, calibPin,
                   highSince, wrapped, edgeElapsed>>

(***************************************************************************)
(* synchronizeToRotation, first loop: while(getAdcBoolean()) {}            *)
(***************************************************************************)
synchronizeWaitLow ==
    /\ pc = "sync_low"
    /\ \E value \in Samples :
          LET state == getAdcBoolean(value, adcState, threshold)
          IN /\ adc' = value
             /\ lastState' = StateName(state)
             /\ pc' = IF state THEN "sync_low" ELSE "sync_high"
             /\ highSince' = (state /\ (highSince \/ value >= threshold[TRUE]))
    /\ UNCHANGED <<threshold, adcState, startTime, revolutionStart, revolutions,
                   newLimit, now, elapsed, rangeLine, reports, sampled, observed,
                   calls, calibPin, wrapped, edgeElapsed>>

(***************************************************************************)
(* synchronizeToRotation, second loop: while(!getAdcBoolean()) {} and, on  *)
(* leaving it, return millis() into startTime and revolutionStart.         *)
(***************************************************************************)
synchronizeWaitHigh ==
    /\ pc = "sync_high"
    /\ \E value \in Samples, d \in ClockSteps :
          LET state == getAdcBoolean(value, adcState, threshold)
          IN /\ adc' = value
             /\ lastState' = StateName(state)
             /\ IF state
                THEN /\ elapsed + d <= MaxElapsed
                     /\ now' = Millis(d)
                     /\ elapsed' = elapsed + d
                     /\ startTime' = Millis(d)
                     /\ revolutionStart' = Millis(d)
                     /\ wrapped' = (wrapped \/ Wraps(d))
                     /\ edgeElapsed' = elapsed + d
                     /\ pc' = "loop"
                ELSE /\ d = 0
                     /\ UNCHANGED <<now, elapsed, startTime, revolutionStart, pc,
                                    wrapped, edgeElapsed>>
             /\ highSince' = (highSince \/ value >= threshold[TRUE])
    /\ UNCHANGED <<threshold, adcState, revolutions, newLimit, rangeLine,
                   reports, sampled, observed, calls, calibPin>>

(***************************************************************************)
(* One call of loop().                                                     *)
(***************************************************************************)
loop ==
    /\ pc = "loop"
    /\ \E value \in Samples, d \in ClockSteps :
          LET senseState == getAdcBoolean(value, adcState, threshold)
          IN /\ adc' = value
             /\ lastState' = StateName(senseState)
             /\ IF FallingEdge(adcState, senseState)
                THEN /\ revolutions < MaxRevolutions
                     /\ elapsed + d <= MaxElapsed
                     /\ now' = Millis(d)
                     /\ elapsed' = elapsed + d
                     /\ revolutions' = NextRevolutions(revolutions)
                     /\ reports' = Append(reports,
                                      RevolutionReport(NextRevolutions(revolutions),
                                          Millis(d), revolutionStart, startTime))
                     /\ revolutionStart' = Millis(d)
                     /\ wrapped' = (wrapped \/ Wraps(d))
                     /\ edgeElapsed' = elapsed + d
                     /\ highSince' = FALSE
                ELSE /\ d = 0
                     /\ highSince' = (highSince \/ value >= threshold[TRUE])
                     /\ UNCHANGED <<now, elapsed, revolutions, reports,
                                    revolutionStart, wrapped, edgeElapsed>>
             /\ adcState' = senseState
    /\ UNCHANGED <<pc, threshold, startTime, newLimit, rangeLine, sampled,
                   observed, calls, calibPin>>

Next ==
    \/ setup
    \/ getActiveSenseRange
    \/ calibrationPinLow
    \/ calibrateBooleanSense
    \/ synchronizeWaitLow
    \/ synchronizeWaitHigh
    \/ loop

Spec == Init /\ [][Next]_vars

\* setup() calls calibrateBooleanSense as soon as getActiveSenseRange has
\* returned: that step is never put off for ever.  What the pins and the
\* analog input do is left to the environment.
FairSpec == Spec /\ WF_vars(calibrateBooleanSense)

(***************************************************************************)
(* Unit harness for calibrateBooleanSense: threshold[] starts as any       *)
(* observed range of an executed sampling loop and the function is called  *)
(* on it, repeatedly.                                                      *)
(***************************************************************************)
InitUnit ==
    /\ pc = "unit"
    /\ threshold \in {th \in [BOOLEAN -> MIN_ADC..MAX_ADC] : th[FALSE] <= th[TRUE]}
    /\ observed = threshold
    /\ adcState = HIGH
    /\ startTime = 0
    /\ revolutionStart = 0
    /\ revolutions = 0
    /\ newLimit = FALSE
    /\ now = 0
    /\ elapsed = 0
    /\ rangeLine = <<>>
    /\ reports = <<>>
    /\ sampled = {}
    /\ adc = 0
    /\ lastState = "none"
    /\ calls = 0
    /\ calibPin = "unread"
    /\ highSince = FALSE
    /\ wrapped = FALSE
    /\ edgeElapsed = 0

unitCalibrate ==
    /\ pc = "unit"
    /\ calls < MaxCalls
    /\ threshold' = CalibratedThreshold(threshold)
    /\ calls' = calls + 1
    /\ UNCHANGED <<pc, adcState, startTime, revolutionStart, revolutions,
                   newLimit, now, elapsed, rangeLine, reports, sampled, adc,
                   lastState, observed, calibPin, highSince, wrapped,
                   edgeElapsed>>

NextUnit == unitCalibrate

SpecUnit == InitUnit /\ [][NextUnit]_vars

(***************************************************************************)
(* Properties.                                                             *)
(***************************************************************************)
\* positions from which the next step makes exactly one getAdcBoolean call
DetectorPcs == {"sync_low", "sync_high", "loop"}
InDeadBand(value, th) == th[FALSE] < value /\ value < th[TRUE]
Range(low, high) == [b \in BOOLEAN |-> IF b THEN high ELSE low]

\* C1: dead-band stability.  Whenever a getAdcBoolean call, in
\* synchronizeToRotation or in loop(), reads a sample strictly between the two
\* thresholds, it reports the state the call before it reported.
C1_DeadBandStability ==
    [][(/\ pc \in DetectorPcs
        /\ lastState # "none"
        /\ InDeadBand(adc', threshold)) => lastState' = lastState]_vars

\* the two-state hysteresis rule as the specification words it
HysteresisRule(sample, previous, th) ==
    CASE previous = HIGH /\ sample <= th[FALSE] -> LOW
      [] previous = LOW /\ sample >= th[TRUE] -> HIGH
      [] OTHER -> previous

\* C2: every getAdcBoolean call returns what the hysteresis rule gives for the
\* sample it read, the stored state and the thresholds; and in loop(), with
\* thresholds (460,540), the samples 600, 500, 450 read one after the other from
\* state HIGH give HIGH, HIGH, LOW.
C2_HysteresisRule ==
    [][/\ pc \in DetectorPcs =>
            lastState' = StateName(HysteresisRule(adc', adcState, threshold))
       /\ (pc = "loop" /\ threshold = Range(460, 540) /\ adcState = HIGH) =>
            /\ adc' = 600 => adcState' = HIGH
            /\ (adc = 600 /\ adc' = 500) => adcState' = HIGH
            /\ (adc = 500 /\ adc' = 450) => adcState' = LOW]_vars

C2_Witness ==
    /\ pc = "loop"
    /\ threshold = Range(460, 540)
    /\ adc = 450
    /\ adcState = LOW
    /\ lastState = "LOW"

\* C3: synchronizeToRotation leaves its first loop on a sample at or below
\* lowThreshold and returns on a sample at or above highThreshold, and the
\* time it returns is the clock value read at that moment.
C3_SynchronizeLowThenHigh ==
    [][/\ (pc = "sync_low" /\ pc' = "sync_high") => adc' <= threshold[FALSE]
       /\ (pc = "sync_high" /\ pc' = "loop") =>
             /\ adc' >= threshold[TRUE]
             /\ startTime' = now']_vars

\* C4: a call of loop() counts a revolution exactly when the stored state is
\* HIGH and the detected state is LOW; it then adds one to revolutions, reports
\* the interval since the last edge and since startTime, and moves the last
\* edge to now.  With startTime 1000 and edges at 1500 and 2700 the counts are
\* 1, 2, the intervals 500, 1200 and the total intervals 500, 1700.
C4_RevolutionEdge ==
    [][/\ pc = "loop" =>
            IF adcState = HIGH /\ lastState' = "LOW"
            THEN /\ revolutions' = revolutions + 1
                 /\ Len(reports') = Len(reports) + 1
                 /\ reports'[Len(reports')].n = revolutions'
                 /\ reports'[Len(reports')].interval =
                        (now' - revolutionStart) % ClockModulus
                 /\ reports'[Len(reports')].total = (now' - startTime) % ClockModulus
                 /\ revolutionStart' = now'
            ELSE /\ revolutions' = revolutions
                 /\ reports' = reports
       /\ (/\ startTime' = 1000
           /\ Len(reports') = 2
           /\ reports'[1].at = 1500
           /\ reports'[2].at = 2700) =>
            /\ <<reports'[1].n, reports'[2].n>> = <<1, 2>>
            /\ <<reports'[1].interval, reports'[2].interval>> = <<500, 1200>>
            /\ <<reports'[1].total, reports'[2].total>> = <<500, 1700>>]_vars

C4_Witness ==
    /\ startTime = 1000
    /\ Len(reports) = 2
    /\ reports[1].at = 1500
    /\ reports[2].at = 2700

\* C5: no revolution is reported with a speed computed from an interval of 0:
\* neither the interval since the last edge nor the interval since startTime
\* of any report is 0.
C5_NoZeroIntervalReport ==
    \A i \in 1..Len(reports) :
        /\ reports[i].interval # 0
        /\ reports[i].total # 0
        /\ reports[i].revSpeed.finite
        /\ reports[i].averageSpeed.finite

\* the median of a range, in the integers
MidPoint(range) == (range[FALSE] + range[TRUE]) \div 2

\* C6 as stated: for every range with low < high the thresholds lie strictly
\* on either side of the median.
C6_StrictBand ==
    (pc = "unit" /\ calls = 1 /\ observed[FALSE] < observed[TRUE]) =>
        /\ threshold[FALSE] < MidPoint(observed)
        /\ MidPoint(observed) < threshold[TRUE]

\* C6 as amended: for every range with low < high the thresholds satisfy
\* lowThreshold <= median <= highThreshold, and both inequalities are strict
\* exactly when high - low is at least 4.
C6_BandAroundMedian ==
    (pc = "unit" /\ calls = 1 /\ observed[FALSE] < observed[TRUE]) =>
        /\ threshold[FALSE] <= MidPoint(observed)
        /\ MidPoint(observed) <= threshold[TRUE]
        /\ (threshold[FALSE] < MidPoint(observed)) <=>
               (observed[TRUE] - observed[FALSE] >= 4)
        /\ (MidPoint(observed) < threshold[TRUE]) <=>
               (observed[TRUE] - observed[FALSE] >= 4)

C6_Witness ==
    /\ pc = "unit"
    /\ calls = 1
    /\ observed = Range(500, 503)
    /\ threshold = Range(501, 501)

\* C7: for every range with low <= high, calibrateBooleanSense computes the
\* median rounded down, the extent high - low and the half band
\* min(extent / 4, 40) with its fraction dropped, sets the thresholds to
\* median - halfBand and median + halfBand, and no value leaves the unsigned
\* range; (100, 900) gives median 500, extent 800, half band 40 and thresholds
\* (460, 540).
C7_CalibrationArithmetic ==
    (pc = "unit" /\ calls = 1) =>
        LET low == observed[FALSE]
            high == observed[TRUE]
            m == Median(observed)
            e == Extent(observed)
            h == HalfBand(observed)
        IN /\ 2 * m <= low + high /\ low + high <= 2 * m + 1
           /\ e = high - low
           /\ (e >= 160) => h = 40
           /\ (e < 160) => (4 * h <= e /\ e < 4 * h + 4)
           /\ threshold[FALSE] = m - h
           /\ threshold[TRUE] = m + h
           /\ 0 <= m - h /\ m + h <= MAX_ADC
           /\ low + high < UIntModulus
           /\ (low = 100 /\ high = 900) =>
                 (m = 500 /\ e = 800 /\ h = 40 /\ threshold = Range(460, 540))

C7_Witness ==
    /\ pc = "unit"
    /\ calls = 1
    /\ observed = Range(100, 900)
    /\ threshold = Range(460, 540)

\* C8: for a range whose extent is <= 0 (high = low, or the untouched initial
\* range low = 1023, high = 0) calibrateBooleanSense gives a zero-width band:
\* highThreshold - lowThreshold <= 0 and both thresholds at the median.
C8_DegenerateRangeZeroBand ==
    (calls >= 1 /\ observed[TRUE] - observed[FALSE] <= 0) =>
        /\ threshold[TRUE] - threshold[FALSE] <= 0
        /\ threshold[FALSE] = MidPoint(observed)
        /\ threshold[TRUE] = MidPoint(observed)

\* C9: calling calibrateBooleanSense twice for an observed range leaves the
\* same threshold pair as calling it once.
C9_CalibrateTwiceSameAsOnce ==
    (pc = "unit" /\ calls = 2) => threshold = CalibratedThreshold(observed)

\* C10: while sampling, once a sample has been read the lower bound is the
\* least and the upper bound the greatest sample read so far (so low <= high),
\* and no pass raises the lower bound or lowers the upper bound.
C10_RangeIsMinMax ==
    [][/\ (pc' \in {"sample", "calibrate"} /\ sampled' # {}) =>
            /\ threshold'[FALSE] \in sampled'
            /\ threshold'[TRUE] \in sampled'
            /\ \A s \in sampled' : threshold'[FALSE] <= s /\ s <= threshold'[TRUE]
            /\ threshold'[FALSE] <= threshold'[TRUE]
       /\ (pc = "sample") =>
            /\ threshold'[FALSE] <= threshold[FALSE]
            /\ threshold'[TRUE] >= threshold[TRUE]]_vars

C10_Witness ==
    /\ pc = "sample"
    /\ sampled = {1023}
    /\ threshold = Range(1023, 1023)

\* C11: a sampling pass prints a "new range" line exactly when its sample
\* changed the lower or the upper bound; once the bounds stop changing no
\* further line is printed.
C11_ReportOnlyOnChange ==
    [][(pc = "sample" /\ pc' = "sample") =>
          ((rangeLine' # <<>>) <=> (threshold' # threshold))]_vars

\* C12: if the calibration pin reads LOW on the first poll, no sample has
\* been read, no line has been printed and the range is still the inverted
\* initial one, (1023, 0).
C12_TriggerLowAtEntry ==
    (pc = "calibrate" /\ sampled = {}) =>
        /\ threshold = Range(MAX_ADC, MIN_ADC)
        /\ rangeLine = <<>>
        /\ ~newLimit

C12_Witness ==
    /\ pc = "calibrate"
    /\ calibPin = "LOW"
    /\ sampled = {}
    /\ threshold = Range(1023, 0)

\* C14: a call of loop() that detects no HIGH to LOW edge prints nothing and
\* leaves revolutions, the last edge time, startTime and the thresholds as
\* they were; all it writes is the stored state.
C14_NoEdgeNoChange ==
    [][(pc = "loop" /\ ~(adcState = HIGH /\ lastState' = "LOW")) =>
          /\ reports' = reports
          /\ revolutions' = revolutions
          /\ revolutionStart' = revolutionStart
          /\ startTime' = startTime
          /\ threshold' = threshold
          /\ StateName(adcState') = lastState']_vars

C14_Witness ==
    /\ pc = "loop"
    /\ Len(reports) = 1
    /\ adcState = HIGH
    /\ lastState = "HIGH"
    /\ highSince

\* C15: the time synchronizeToRotation returns, which becomes startTime and
\* the first last-edge time, is the time of a HIGH to LOW change of the
\* detected state.
C15_TimeZeroOnFallingEdge ==
    [][(pc = "sync_high" /\ pc' = "loop") =>
          (lastState = "HIGH" /\ lastState' = "LOW")]_vars

\* C16: after every getAdcBoolean call, from synchronizeToRotation or from
\* loop(), adcState holds the value that call returned.
C16_StateFollowsDetector ==
    [][(pc \in DetectorPcs) => (lastState' = StateName(adcState'))]_vars

\* C17: every counted revolution, the first one included, is preceded by a
\* sample >= highThreshold read since the previous counted revolution (for
\* the first: since the sample that ended the first wait of
\* synchronizeToRotation).
C17_CountNeedsHighSample ==
    [][(pc = "loop" /\ revolutions' # revolutions) => highSince]_vars

\* the sum of the intervals of the first k reports
RECURSIVE IntervalSum(_)
IntervalSum(k) == IF k = 0 THEN 0 ELSE IntervalSum(k - 1) + reports[k].interval

\* what C18 says of a state of the Revolution Timer
RevolutionRecordConsistent ==
    (pc = "loop" /\ ~wrapped) =>
        /\ revolutions = Len(reports)
        /\ \A i \in 1..Len(reports) : reports[i].n = i
        /\ startTime <= revolutionStart
        /\ IntervalSum(Len(reports)) = revolutionStart - startTime
        /\ Len(reports) > 0 =>
              reports[Len(reports)].total = revolutionStart - startTime

\* C18: as long as the clock has not wrapped, after any number of loop()
\* calls startTime is what synchronization set, the reported revolution
\* numbers are 1, 2, 3, ... without gap or repeat, startTime <= last edge
\* time, and the reported intervals add up to last edge time - startTime,
\* the total interval of the latest report.
C18_RecordConsistency ==
    [][/\ (pc = "loop") => startTime' = startTime
       /\ (pc = "sync_high" /\ pc' = "loop") =>
             (startTime' = now' /\ revolutionStart' = now')
       /\ RevolutionRecordConsistent']_vars

C18_Witness ==
    /\ pc = "loop"
    /\ ~wrapped
    /\ Len(reports) = 2
    /\ reports[1].interval = 500
    /\ reports[2].interval = 1200
    /\ reports[2].total = 1700

\* C19: when two consecutive edges lie less than a full clock period apart,
\* the reported interval is the true number of milliseconds between them,
\* also when the clock wrapped in between.
C19_IntervalAcrossWrap ==
    [][(/\ pc = "loop"
        /\ revolutions' # revolutions
        /\ elapsed' - edgeElapsed < ClockModulus) =>
          reports'[Len(reports')].interval = elapsed' - edgeElapsed]_vars

C19_Witness ==
    /\ pc = "loop"
    /\ Len(reports) = 1
    /\ reports[1].at < startTime
    /\ reports[1].interval = 1200
    /\ wrapped

\* C13: range sampling ends exactly on a poll of the calibration pin that
\* reads LOW and goes on while the polls read HIGH; once the pin has read LOW
\* getActiveSenseRange has returned, and calibrateBooleanSense and then
\* synchronizeToRotation run, in that order.
C13_SamplingEndsOnTriggerLow ==
    /\ [][/\ (pc = "sample") =>
               /\ (pc' = "calibrate") <=> (calibPin' = "LOW")
               /\ (pc' = "sample") <=> (calibPin' = "HIGH")
          /\ (pc' = "calibrate") => (pc = "sample" /\ calibPin' = "LOW")
          /\ (pc = "calibrate") =>
               (pc' = "sync_low" /\ calls' = 1 /\ lastState' = "none")
          /\ (lastState' # "none") => calls' = 1]_vars
    /\ (calibPin = "LOW") ~> (calls = 1 /\ pc \in DetectorPcs)

C13_Witness ==
    /\ pc = "sync_high"
    /\ calibPin = "LOW"
    /\ calls = 1
    /\ observed = Range(100, 900)

\* the latest getAdcBoolean call read a sample at or below lowThreshold /
\* at or above highThreshold
LowRead == calls = 1 /\ lastState # "none" /\ adc <= threshold[FALSE]
HighRead == calls = 1 /\ lastState # "none" /\ adc >= threshold[TRUE]
\* the model counts no further revolution
Capped == revolutions = MaxRevolutions

====
